---- MODULE Spec2Model ----
(***************************************************************************)
(* The event-processing pipeline of bigcases2:                             *)
(*   bc/subscription/api_views.py  handle_cl_webhook (webhook intake)      *)
(*   bc/subscription/tasks.py      process_filing_webhook_event (matcher), *)
(*                                 check_webhook_before_posting (gate),    *)
(*                                 process_fetch_webhook_event (resume),   *)
(*                                 make_post_for_webhook_event (post job)  *)
(*   bc/channels/models.py         Channel.enabled                         *)
(*                                                                         *)
(* Two specifications share the variables:                                 *)
(*   SpecIntake  the view executed statement by statement by concurrent    *)
(*               requests, as the days pass;                               *)
(*   Spec        the view executed as one step, followed by the jobs of    *)
(*               tasks.py run by the workers.                              *)
(***************************************************************************)
EXTENDS Integers, Sequences, FiniteSets, Bags

VARIABLES
    cache,        \* django cache: key -> days the key still lives (0: absent)
    reqs,         \* the webhook requests received so far, in arrival order
    events,       \* FilingWebhookEvent table, pk = index
    matcher_jobs, \* pks with a scheduled process_filing_webhook_event job
    subscriptions,\* cl_docket_id values that have a Subscription row
    enabled,      \* Channel.enabled of each channel
    jobs,         \* the bag of make_post_for_webhook_event jobs in the queue
    enqueued,     \* the bag of the fwe pk of every post job enqueued so far
    posts,        \* the bag of the <<fwe pk, channel pk>> of the Post rows
    submits,      \* the bag of the <<fwe pk, channel pk>> of the statuses that
                  \* api.add_status has published
    lastOp        \* the task (or view) that ran last and the calls it made

vars == <<cache, reqs, events, matcher_jobs, subscriptions, enabled, jobs,
          enqueued, posts, submits, lastOp>>

pipelineVars == <<subscriptions, enabled, jobs, enqueued, posts, submits>>

(***************************************************************************)
(* Bounds of the model.                                                    *)
(***************************************************************************)
MaxRequests == 2     \* requests received in a run of SpecIntake
MaxJobs == 2         \* post jobs enqueued in a run of Spec

(***************************************************************************)
(* Program constants.                                                      *)
(***************************************************************************)
\* cache.set(idempotency_key, True, 60 * 60 * 24 * 2): two days
KeyLifetime == 2
\* the only supported data["webhook"]["event_type"]
DocketAlertEventType == 1

\* FilingWebhookEvent.status values
SCHEDULED == "New"   \* the status of a row just created
SUCCESSFUL == "Successful"
FAILED == "Failed"
IGNORED == "Ignored"
WAITING_FOR_DOCUMENT == "WaitingForDocument"

\* filing_webhook_event.subscription of an event not linked to a Subscription
NoSubscription == 0

HTTP_OK == 200
HTTP_CREATED == 201

Channels == {1, 2}

\* the dockets that can be followed
Dockets == {1}

(***************************************************************************)
(* Request inputs.  A missing or empty Idempotency-Key header is "".       *)
(***************************************************************************)
Keys == {"k1", "k2"}

Doc(pacer_doc_id, description) ==
    [pacer_doc_id |-> pacer_doc_id, description |-> description]

Result(docket, entry_number, seq, docs) ==
    [docket |-> docket, description |-> "entry", entry_number |-> entry_number,
     recap_sequence_number |-> seq, recap_documents |-> docs]

OneResult == <<Result(1, 7, 5, <<Doc("p1", "plain")>>)>>

\* data["payload"]["results"] of the accepted requests of SpecIntake: one
\* result, two results out of order, two results with equal sequence numbers
\* (the first with two documents, the second with none).
IntakePayloads ==
    { OneResult,
      <<Result(1, 8, 6, <<Doc("p2", "plain")>>),
        Result(1, 7, 5, <<Doc("p1", "plain")>>)>>,
      <<Result(1, 7, 5, <<Doc("p1", "plain"), Doc("p2", "plain")>>),
        Result(1, 8, 5, <<>>)>> }

\* the requests of SpecIntake: <<Idempotency-Key, event_type, results>>
IntakeRequests ==
    {<<"", DocketAlertEventType, OneResult>>, <<"k1", 2, OneResult>>,
     <<"k2", DocketAlertEventType, OneResult>>}
    \cup {<<"k1", DocketAlertEventType, p>> : p \in IntakePayloads}

\* the results of the requests of Spec: one result with one document, of
\* docket 1 (plain description, description matching DO_NOT_POST, description
\* matching DO_NOT_PAY, no pacer_doc_id) or without docket id (0).
PipelinePayloads ==
    { <<Result(1, 7, 5, <<Doc("p1", "plain")>>)>>,
      <<Result(1, 7, 5, <<Doc("p1", "junk")>>)>>,
      <<Result(1, 7, 5, <<Doc("p1", "nopay")>>)>>,
      <<Result(1, 7, 5, <<Doc("", "plain")>>)>>,
      <<Result(0, 7, 5, <<Doc("p1", "plain")>>)>> }

\* the requests of Spec: <<Idempotency-Key, event_type, results>>.  They are
\* deliveries of one webhook (one key), so that one of them is accepted: a
\* task reads and writes the row of its own event only, and Spec follows
\* the event of one delivery through the tasks.
PipelineRequests ==
    {<<"k1", DocketAlertEventType, p>> : p \in PipelinePayloads}

(***************************************************************************)
(* handle_cl_webhook                                                       *)
(***************************************************************************)
RECURSIVE InsertByKey(_, _)
\* x inserted after the last element whose key is <= x's (stable)
InsertByKey(sorted, x) ==
    IF sorted = <<>> THEN <<x>>
    ELSE IF Head(sorted).recap_sequence_number <= x.recap_sequence_number
         THEN <<Head(sorted)>> \o InsertByKey(Tail(sorted), x)
         ELSE <<x>> \o sorted

\* Variant of SortedResults: the results are taken in arrival order.
UnsortedResults(results) == results

RECURSIVE SortedResults(_)
\* sorted(results, key=lambda d: d["recap_sequence_number"])
SortedResults(results) ==
    IF results = <<>> THEN <<>>
    ELSE InsertByKey(SortedResults(SubSeq(results, 1, Len(results) - 1)),
                     results[Len(results)])

\* the FilingWebhookEvent that objects.create makes of one recap document
NewFiling(result, doc) ==
    [docket_id |-> result.docket,
     pacer_doc_id |-> doc.pacer_doc_id,
     document_number |-> result.entry_number,
     short_description |-> doc.description,
     long_description |-> result.description,
     status |-> SCHEDULED,
     subscription |-> NoSubscription]

RECURSIVE FilingsOfResult(_, _)
FilingsOfResult(result, docs) ==
    IF docs = <<>> THEN <<>>
    ELSE <<NewFiling(result, Head(docs))>> \o FilingsOfResult(result, Tail(docs))

RECURSIVE FilingsOf(_)
\* the rows the two nested loops create, in creation order
FilingsOf(results) ==
    IF results = <<>> THEN <<>>
    ELSE FilingsOfResult(Head(results), Head(results).recap_documents)
         \o FilingsOf(Tail(results))

\* cache.get(idempotency_key): the key is present until its lifetime is over
CacheGet(key) == cache[key] > 0

\* Variant of CacheSet: the key is not saved.
CacheSetNothing(key) == cache

\* cache.set(idempotency_key, True, 60 * 60 * 24 * 2)
CacheSet(key) == [cache EXCEPT ![key] = KeyLifetime]

NoOp == [op |-> "none"]

WebhookOp(response, raised) ==
    [op |-> "handle_cl_webhook", response |-> response, raised |-> raised]

\* response: the HTTP status of the Response returned (0: none returned);
\* raised: the exception raised ("": none)
Request(key, event_type, results, pc, todo, response, raised) ==
    [key |-> key, event_type |-> event_type, results |-> results, pc |-> pc,
     todo |-> todo, created |-> <<>>, response |-> response, raised |-> raised,
     body |-> <<>>,
     \* history: the days left of the lifetime of the key this request
     \* saved, and the earlier requests it replays (same key, answered 201,
     \* lifetime not over when this request arrived)
     ttl |-> 0,
     replays |-> {i \in 1..Len(reqs) :
                    /\ reqs[i].key = key
                    /\ reqs[i].response = HTTP_CREATED
                    /\ reqs[i].ttl > 0},
     \* history: the earlier requests with the same key that were between
     \* cache.get and cache.set when this request arrived
     overlaps |-> {i \in 1..Len(reqs) :
                     reqs[i].key = key /\ reqs[i].pc = "creating"}]

\* Variant of Receive: the event type is not checked.
ReceiveAnyEventType(key, event_type, results) ==
    /\ Len(reqs) < MaxRequests
    /\ reqs' = Append(reqs,
         IF key = ""
         THEN Request(key, event_type, results, "done", <<>>, 0,
                      "IdempotencyKeyMissing")
         ELSE IF CacheGet(key)
         THEN Request(key, event_type, results, "done", <<>>, HTTP_OK, "")
         ELSE Request(key, event_type, results, "creating",
                      FilingsOf(SortedResults(results)), 0, ""))
    /\ lastOp' = NoOp
    /\ UNCHANGED <<cache, events, matcher_jobs>>
    /\ UNCHANGED pipelineVars

\* Variant of Receive: the key is saved as soon as it is found absent.
ReceiveAndReserve(key, event_type, results) ==
    /\ Len(reqs) < MaxRequests
    /\ reqs' = Append(reqs,
         IF key = ""
         THEN Request(key, event_type, results, "done", <<>>, 0,
                      "IdempotencyKeyMissing")
         ELSE IF event_type # DocketAlertEventType
         THEN Request(key, event_type, results, "done", <<>>, 0,
                      "WebhookNotSupported")
         ELSE IF CacheGet(key)
         THEN Request(key, event_type, results, "done", <<>>, HTTP_OK, "")
         ELSE Request(key, event_type, results, "creating",
                      FilingsOf(SortedResults(results)), 0, ""))
    /\ cache' = IF key # "" /\ event_type = DocketAlertEventType /\ ~CacheGet(key)
                THEN [cache EXCEPT ![key] = KeyLifetime] ELSE cache
    /\ lastOp' = NoOp
    /\ UNCHANGED <<events, matcher_jobs>>
    /\ UNCHANGED pipelineVars

\* Lines 30-44: a request arrives; the header and the event type are checked,
\* the key is looked up and the results are sorted.
Receive(key, event_type, results) ==
    /\ Len(reqs) < MaxRequests
    /\ reqs' = Append(reqs,
         IF key = ""
         THEN Request(key, event_type, results, "done", <<>>, 0,
                      "IdempotencyKeyMissing")
         ELSE IF event_type # DocketAlertEventType
         THEN Request(key, event_type, results, "done", <<>>, 0,
                      "WebhookNotSupported")
         ELSE IF CacheGet(key)
         THEN Request(key, event_type, results, "done", <<>>, HTTP_OK, "")
         ELSE Request(key, event_type, results, "creating",
                      FilingsOf(SortedResults(results)), 0, ""))
    /\ lastOp' = NoOp
    /\ UNCHANGED <<cache, events, matcher_jobs>>
    /\ UNCHANGED pipelineVars

\* Variant of CreateFiling: the key is saved inside the loop.
CreateFilingAndReserve(r) ==
    /\ reqs[r].pc = "creating"
    /\ reqs[r].todo # <<>>
    /\ events' = Append(events, Head(reqs[r].todo))
    /\ matcher_jobs' = matcher_jobs \cup {Len(events) + 1}
    /\ reqs' = [reqs EXCEPT ![r].todo = Tail(@),
                            ![r].created = Append(@, Len(events) + 1)]
    /\ cache' = [cache EXCEPT ![reqs[r].key] = KeyLifetime]
    /\ lastOp' = NoOp
    /\ UNCHANGED pipelineVars

\* Lines 50-63: one pass of the inner loop creates a row and schedules its
\* process_filing_webhook_event job.
CreateFiling(r) ==
    /\ reqs[r].pc = "creating"
    /\ reqs[r].todo # <<>>
    /\ events' = Append(events, Head(reqs[r].todo))
    /\ matcher_jobs' = matcher_jobs \cup {Len(events) + 1}
    /\ reqs' = [reqs EXCEPT ![r].todo = Tail(@),
                            ![r].created = Append(@, Len(events) + 1)]
    /\ lastOp' = NoOp
    /\ UNCHANGED cache
    /\ UNCHANGED pipelineVars

\* Lines 50-63: a pass of the inner loop raises, in objects.create (no row is
\* made) or in queue.enqueue_in (the row is made, the job is not).  The view
\* runs in no transaction and catches nothing: the request ends there.
Fail(r, row_created) ==
    /\ reqs[r].pc = "creating"
    /\ reqs[r].todo # <<>>
    /\ events' = IF row_created THEN Append(events, Head(reqs[r].todo))
                 ELSE events
    /\ reqs' = [reqs EXCEPT ![r].pc = "done",
                            ![r].raised = "ServerError",
                            ![r].created = IF row_created
                                           THEN Append(@, Len(events) + 1)
                                           ELSE @]
    /\ lastOp' = NoOp
    /\ UNCHANGED <<cache, matcher_jobs>>
    /\ UNCHANGED pipelineVars

\* Lines 65-68: the loops are over; the key is saved and the payload echoed.
Reserve(r) ==
    /\ reqs[r].pc = "creating"
    /\ reqs[r].todo = <<>>
    /\ cache' = CacheSet(reqs[r].key)
    /\ reqs' = [reqs EXCEPT ![r].pc = "done",
                            ![r].response = HTTP_CREATED,
                            ![r].body = reqs[r].results,
                            ![r].ttl = KeyLifetime]
    /\ lastOp' = NoOp
    /\ UNCHANGED <<events, matcher_jobs>>
    /\ UNCHANGED pipelineVars

\* A day passes: every key in the cache is a day closer to its expiry.
Tick ==
    /\ \E k \in Keys : cache[k] > 0
    /\ cache' = [k \in Keys |-> IF cache[k] > 0 THEN cache[k] - 1 ELSE 0]
    /\ reqs' = [i \in 1..Len(reqs) |->
                 [reqs[i] EXCEPT !.ttl = IF @ > 0 THEN @ - 1 ELSE 0]]
    /\ lastOp' = NoOp
    /\ UNCHANGED <<events, matcher_jobs>>
    /\ UNCHANGED pipelineVars

\* The whole view (lines 30-68) run by one request with no other request
\* in between.
HandleWebhook(key, event_type, results) ==
    LET filings == FilingsOf(SortedResults(results))
        n == Len(events)
    IN  IF key = ""
        THEN /\ lastOp' = WebhookOp(0, "IdempotencyKeyMissing")
             /\ UNCHANGED <<cache, events, matcher_jobs>>
        ELSE IF event_type # DocketAlertEventType
        THEN /\ lastOp' = WebhookOp(0, "WebhookNotSupported")
             /\ UNCHANGED <<cache, events, matcher_jobs>>
        ELSE IF CacheGet(key)
        THEN /\ lastOp' = WebhookOp(HTTP_OK, "")
             /\ UNCHANGED <<cache, events, matcher_jobs>>
        ELSE /\ events' = events \o filings
             /\ matcher_jobs' = matcher_jobs \cup (n + 1 .. n + Len(filings))
             /\ cache' = CacheSet(key)
             /\ lastOp' = WebhookOp(HTTP_CREATED, "")

Webhook(key, event_type, results) ==
    /\ HandleWebhook(key, event_type, results)
    /\ UNCHANGED reqs
    /\ UNCHANGED pipelineVars

(***************************************************************************)
(* The models' helpers that tasks.py imports.                              *)
(***************************************************************************)
\* filing_webhook_event.description
Description(fwe) == fwe.short_description

\* DO_NOT_POST.search(description), DO_NOT_PAY.search(description)
DoNotPost(description) == description = "junk"
DoNotPay(description) == description = "nopay"

\* get_enabled_channels()
GetEnabledChannels == {c \in Channels : enabled[c]}

\* Subscription.objects.get(cl_docket_id=...): the pk of the row (the model
\* gives the Subscription of docket d the pk d), NoSubscription for DoesNotExist
SubscriptionGet(cl_docket_id) ==
    IF cl_docket_id \in subscriptions THEN cl_docket_id ELSE NoSubscription

(***************************************************************************)
(* The record of the task that ran last.                                   *)
(*   outcome      "returned" or "raised"                                   *)
(*   lookup       lookup_document_by_doc_id was called                     *)
(*   archived     the cl_document["filepath_local"] it returned was set    *)
(*   sponsorship  get_active_sponsorship() was called and returned one     *)
(*   purchase     purchase_pdf_by_doc_id was called                        *)
(*   logged       log_purchase was called                                  *)
(*   enqueued     the number of make_post_for_webhook_event jobs enqueued  *)
(***************************************************************************)
TaskOp(op, fwe, outcome, calls, n) ==
    [op |-> op, fwe |-> fwe, outcome |-> outcome, lookup |-> calls.lookup,
     archived |-> calls.archived, sponsorship |-> calls.sponsorship,
     purchase |-> calls.purchase, logged |-> calls.logged, enqueued |-> n]

NoCalls ==
    [lookup |-> FALSE, archived |-> FALSE, sponsorship |-> FALSE,
     purchase |-> FALSE, logged |-> FALSE]

(***************************************************************************)
(* process_filing_webhook_event                                            *)
(***************************************************************************)
\* Variant of ProcessFilingWebhookEvent: a row without Subscription is left
\* as it is.
MatcherSkipsUnmatched(pk) ==
    LET fwe == events[pk]
        subscription == SubscriptionGet(fwe.docket_id)
    IN  IF fwe.docket_id = 0 \/ subscription = NoSubscription
        THEN UNCHANGED events
        ELSE events' = [events EXCEPT ![pk].subscription = subscription,
                                      ![pk].status = SUCCESSFUL]

ProcessFilingWebhookEvent(pk) ==
    LET fwe == events[pk]
        subscription == SubscriptionGet(fwe.docket_id)
    IN  IF fwe.docket_id = 0
        THEN UNCHANGED events
        ELSE IF subscription = NoSubscription
        THEN events' = [events EXCEPT ![pk].status = FAILED]
        ELSE events' = [events EXCEPT ![pk].subscription = subscription,
                                      ![pk].status = SUCCESSFUL]

\* A worker runs the job that handle_cl_webhook scheduled for the row.
Matcher(pk) ==
    /\ pk \in matcher_jobs
    /\ matcher_jobs' = matcher_jobs \ {pk}
    /\ ProcessFilingWebhookEvent(pk)
    /\ lastOp' = TaskOp("process_filing_webhook_event", pk, "returned",
                        NoCalls, 0)
    /\ UNCHANGED <<cache, reqs>>
    /\ UNCHANGED pipelineVars

(***************************************************************************)
(* The dispatch loop of check_webhook_before_posting (lines 108-119) and   *)
(* of process_fetch_webhook_event (lines 158-170).                         *)
(***************************************************************************)
\* the job queue.enqueue makes.  attempts counts the runs that raised;
\* submitted tells whether one of them had published the status already.
PostJob(channel, fwe_pk, document, sponsor_text) ==
    [channel |-> channel, subscription |-> events[fwe_pk].subscription,
     fwe |-> fwe_pk, document |-> document, sponsor_text |-> sponsor_text,
     attempts |-> 0, submitted |-> FALSE]

\* Variant of Dispatch: a job for every channel, enabled or not.
DispatchToAllChannels(fwe_pk, document, sponsor_text) ==
    SetToBag({PostJob(c, fwe_pk, document, sponsor_text) : c \in Channels})

\* for channel in get_enabled_channels(): queue.enqueue(...)
Dispatch(fwe_pk, document, sponsor_text) ==
    SetToBag({PostJob(c, fwe_pk, document, sponsor_text) :
                c \in GetEnabledChannels})

RECURSIVE Copies(_, _)
\* the bag of n copies of x
Copies(x, n) == IF n = 0 THEN EmptyBag ELSE SetToBag({x}) (+) Copies(x, n - 1)

Enqueue(fwe_pk, new) ==
    /\ BagCardinality(enqueued) + BagCardinality(new) <= MaxJobs
    /\ jobs' = jobs (+) new
    /\ enqueued' = enqueued (+) Copies(fwe_pk, BagCardinality(new))

(***************************************************************************)
(* check_webhook_before_posting                                            *)
(*   archived     cl_document["filepath_local"] is set                     *)
(*   sponsorship  get_active_sponsorship() returns a sponsorship           *)
(***************************************************************************)
\* Variant of PurchaseAndWait: the task goes on to the dispatch loop after
\* the purchase.
PurchaseAndDispatch(pk, calls) ==
    LET new == Dispatch(pk, FALSE, FALSE)
    IN  /\ events' = [events EXCEPT ![pk].status = WAITING_FOR_DOCUMENT]
        /\ Enqueue(pk, new)
        /\ lastOp' = TaskOp("check_webhook_before_posting", pk, "returned",
                            [calls EXCEPT !.purchase = TRUE],
                            BagCardinality(new))

\* Variant of PurchaseAndWait: the status is not saved.
PurchaseWithoutWaiting(pk, calls) ==
    /\ lastOp' = TaskOp("check_webhook_before_posting", pk, "returned",
                        [calls EXCEPT !.purchase = TRUE], 0)
    /\ UNCHANGED <<events, jobs, enqueued>>

\* Lines 100-105: the document is purchased and the row waits for it.
PurchaseAndWait(pk, calls) ==
    /\ events' = [events EXCEPT ![pk].status = WAITING_FOR_DOCUMENT]
    /\ lastOp' = TaskOp("check_webhook_before_posting", pk, "returned",
                        [calls EXCEPT !.purchase = TRUE], 0)
    /\ UNCHANGED <<jobs, enqueued>>

\* Variant of CheckWebhookBeforePosting: the purchase depends only on the
\* document being unavailable and a sponsorship being active.
GatePurchasesUnchecked(pk, archived, sponsorship) ==
    LET fwe == events[pk]
        op == "check_webhook_before_posting"
        looked == [NoCalls EXCEPT !.lookup = TRUE, !.archived = archived,
                                  !.sponsorship = ~archived /\ sponsorship]
    IN  IF fwe.status # SUCCESSFUL
        THEN /\ lastOp' = TaskOp(op, pk, "returned", NoCalls, 0)
             /\ UNCHANGED <<events, jobs, enqueued>>
        ELSE IF fwe.subscription = NoSubscription
        THEN /\ lastOp' = TaskOp(op, pk, "raised", NoCalls, 0)
             /\ UNCHANGED <<events, jobs, enqueued>>
        ELSE IF DoNotPost(Description(fwe))
        THEN /\ events' = [events EXCEPT ![pk].status = IGNORED]
             /\ lastOp' = TaskOp(op, pk, "returned", NoCalls, 0)
             /\ UNCHANGED <<jobs, enqueued>>
        ELSE IF ~archived /\ sponsorship
        THEN PurchaseAndWait(pk, looked)
        ELSE LET new == Dispatch(pk, archived, FALSE)
             IN  /\ Enqueue(pk, new)
                 /\ lastOp' = TaskOp(op, pk, "returned", looked,
                                     BagCardinality(new))
                 /\ UNCHANGED events

\* Variant of CheckWebhookBeforePosting: the status of the row is not tested.
GateWithoutStatusCheck(pk, archived, sponsorship) ==
    LET fwe == events[pk]
        op == "check_webhook_before_posting"
        looked == [NoCalls EXCEPT !.lookup = TRUE, !.archived = archived,
                                  !.sponsorship = ~archived /\ sponsorship]
    IN  IF fwe.subscription = NoSubscription
        THEN /\ lastOp' = TaskOp(op, pk, "raised", NoCalls, 0)
             /\ UNCHANGED <<events, jobs, enqueued>>
        ELSE IF DoNotPost(Description(fwe))
        THEN /\ events' = [events EXCEPT ![pk].status = IGNORED]
             /\ lastOp' = TaskOp(op, pk, "returned", NoCalls, 0)
             /\ UNCHANGED <<jobs, enqueued>>
        ELSE IF /\ ~archived
                /\ sponsorship
                /\ fwe.pacer_doc_id # ""
                /\ ~DoNotPay(Description(fwe))
        THEN PurchaseAndWait(pk, looked)
        ELSE LET new == Dispatch(pk, archived, FALSE)
             IN  /\ Enqueue(pk, new)
                 /\ lastOp' = TaskOp(op, pk, "returned", looked,
                                     BagCardinality(new))
                 /\ UNCHANGED events

CheckWebhookBeforePosting(pk, archived, sponsorship) ==
    LET fwe == events[pk]
        op == "check_webhook_before_posting"
        looked == [NoCalls EXCEPT !.lookup = TRUE, !.archived = archived,
                                  !.sponsorship = ~archived /\ sponsorship]
    IN  IF fwe.status # SUCCESSFUL
        THEN /\ lastOp' = TaskOp(op, pk, "returned", NoCalls, 0)
             /\ UNCHANGED <<events, jobs, enqueued>>
        ELSE IF fwe.subscription = NoSubscription
        THEN /\ lastOp' = TaskOp(op, pk, "raised", NoCalls, 0)
             /\ UNCHANGED <<events, jobs, enqueued>>
        ELSE IF DoNotPost(Description(fwe))
        THEN /\ events' = [events EXCEPT ![pk].status = IGNORED]
             /\ lastOp' = TaskOp(op, pk, "returned", NoCalls, 0)
             /\ UNCHANGED <<jobs, enqueued>>
        ELSE IF /\ ~archived
                /\ sponsorship
                /\ fwe.pacer_doc_id # ""
                /\ ~DoNotPay(Description(fwe))
        THEN PurchaseAndWait(pk, looked)
        ELSE LET new == Dispatch(pk, archived, FALSE)
             IN  /\ Enqueue(pk, new)
                 /\ lastOp' = TaskOp(op, pk, "returned", looked,
                                     BagCardinality(new))
                 /\ UNCHANGED events

Gate(pk, archived, sponsorship) ==
    /\ CheckWebhookBeforePosting(pk, archived, sponsorship)
    /\ UNCHANGED <<cache, reqs, matcher_jobs, subscriptions, enabled, posts,
                   submits>>

(***************************************************************************)
(* process_fetch_webhook_event                                             *)
(***************************************************************************)
\* Variant of ProcessFetchWebhookEvent: the purchase is logged whether or not
\* a sponsorship is active.
ResumeLogsAlways(pk, sponsorship) ==
    LET fwe == events[pk]
        op == "process_fetch_webhook_event"
        calls == [NoCalls EXCEPT !.lookup = TRUE, !.archived = TRUE,
                                 !.sponsorship = sponsorship,
                                 !.logged = TRUE]
    IN  IF fwe.subscription = NoSubscription
        THEN /\ lastOp' = TaskOp(op, pk, "raised", NoCalls, 0)
             /\ UNCHANGED <<events, jobs, enqueued>>
        ELSE LET new == Dispatch(pk, TRUE, sponsorship)
             IN  /\ events' = [events EXCEPT ![pk].status = SUCCESSFUL]
                 /\ Enqueue(pk, new)
                 /\ lastOp' = TaskOp(op, pk, "returned", calls,
                                     BagCardinality(new))

\* Variant of ProcessFetchWebhookEvent: the link to a Subscription is not
\* checked.
ResumeWithoutLinkCheck(pk, sponsorship) ==
    LET op == "process_fetch_webhook_event"
        calls == [NoCalls EXCEPT !.lookup = TRUE, !.archived = TRUE,
                                 !.sponsorship = sponsorship,
                                 !.logged = sponsorship]
        new == Dispatch(pk, TRUE, sponsorship)
    IN  /\ events' = [events EXCEPT ![pk].status = SUCCESSFUL]
        /\ Enqueue(pk, new)
        /\ lastOp' = TaskOp(op, pk, "returned", calls, BagCardinality(new))

ProcessFetchWebhookEvent(pk, sponsorship) ==
    LET fwe == events[pk]
        op == "process_fetch_webhook_event"
        calls == [NoCalls EXCEPT !.lookup = TRUE, !.archived = TRUE,
                                 !.sponsorship = sponsorship,
                                 !.logged = sponsorship]
    IN  IF fwe.subscription = NoSubscription
        THEN /\ lastOp' = TaskOp(op, pk, "raised", NoCalls, 0)
             /\ UNCHANGED <<events, jobs, enqueued>>
        ELSE LET new == Dispatch(pk, TRUE, sponsorship)
             IN  /\ events' = [events EXCEPT ![pk].status = SUCCESSFUL]
                 /\ Enqueue(pk, new)
                 /\ lastOp' = TaskOp(op, pk, "returned", calls,
                                     BagCardinality(new))

Resume(pk, sponsorship) ==
    /\ ProcessFetchWebhookEvent(pk, sponsorship)
    /\ UNCHANGED <<cache, reqs, matcher_jobs, subscriptions, enabled, posts,
                   submits>>

(***************************************************************************)
(* make_post_for_webhook_event, run by a worker for job j.                 *)
(*   outcome  "raised_before"  composing or api.add_status raised          *)
(*            "raised_after"   api.add_status returned, Post.objects.create*)
(*                             (or the commit) raised                      *)
(*            "created"        the Post was created                        *)
(* The task is @transaction.atomic: a Post row exists only when the task   *)
(* returns.  The job was enqueued with Retry(max=RQ_MAX_NUMBER_OF_RETRIES).*)
(***************************************************************************)
RQ_MAX_NUMBER_OF_RETRIES == 1

PostOp(job, outcome, submitted, files, watermark) ==
    [op |-> "make_post_for_webhook_event", fwe |-> job.fwe,
     channel |-> job.channel, retry |-> job.attempts > 0,
     attempt |-> job.attempts + 1,
     resubmitted |-> job.submitted /\ submitted, outcome |-> outcome,
     submitted |-> submitted, files |-> files, watermark |-> watermark]

\* Variant of Retried: a job that is out of retries takes the other jobs of
\* its event with it.
RetriedCancelsEvent(job, submitted) ==
    IF job.attempts < RQ_MAX_NUMBER_OF_RETRIES
    THEN (jobs (-) SetToBag({job}))
         (+) SetToBag({[job EXCEPT !.attempts = @ + 1,
                                   !.submitted = @ \/ submitted]})
    ELSE LET rest == {x \in BagToSet(jobs) : x.fwe # job.fwe}
         IN  [x \in rest |-> jobs[x]]

\* Variant of Retried: the job is enqueued again however often it has run.
RetriedForever(job, submitted) ==
    (jobs (-) SetToBag({job}))
    (+) SetToBag({[job EXCEPT !.attempts = @ + 1,
                              !.submitted = @ \/ submitted]})

\* the queue after a run of the job that raised: the job is enqueued again
\* while retries are left, and dropped as failed otherwise
Retried(job, submitted) ==
    IF job.attempts < RQ_MAX_NUMBER_OF_RETRIES
    THEN (jobs (-) SetToBag({job}))
         (+) SetToBag({[job EXCEPT !.attempts = @ + 1,
                                   !.submitted = @ \/ submitted]})
    ELSE jobs (-) SetToBag({job})

\* Variant of MakePostForWebhookEvent: the Post row is saved before the status
\* is submitted and outside a transaction, so a run that raises leaves it.
MakePostWithoutRollback(job, outcome) ==
    LET pair == <<job.fwe, job.channel>>
        files == job.document
        watermark == job.sponsor_text /\ files
    IN  CASE outcome = "raised_before" ->
               /\ jobs' = Retried(job, FALSE)
               /\ posts' = posts (+) SetToBag({pair})
               /\ lastOp' = PostOp(job, "raised", FALSE, files, watermark)
               /\ UNCHANGED submits
          [] outcome = "raised_after" ->
               /\ jobs' = Retried(job, TRUE)
               /\ submits' = submits (+) SetToBag({pair})
               /\ posts' = posts (+) SetToBag({pair})
               /\ lastOp' = PostOp(job, "raised", TRUE, files, watermark)
          [] outcome = "created" ->
               /\ jobs' = jobs (-) SetToBag({job})
               /\ submits' = submits (+) SetToBag({pair})
               /\ posts' = posts (+) SetToBag({pair})
               /\ lastOp' = PostOp(job, "returned", TRUE, files, watermark)

MakePostForWebhookEvent(job, outcome) ==
    LET pair == <<job.fwe, job.channel>>
        files == job.document
        watermark == job.sponsor_text /\ files
    IN  CASE outcome = "raised_before" ->
               /\ jobs' = Retried(job, FALSE)
               /\ lastOp' = PostOp(job, "raised", FALSE, files, watermark)
               /\ UNCHANGED <<posts, submits>>
          [] outcome = "raised_after" ->
               /\ jobs' = Retried(job, TRUE)
               /\ submits' = submits (+) SetToBag({pair})
               /\ lastOp' = PostOp(job, "raised", TRUE, files, watermark)
               /\ UNCHANGED posts
          [] outcome = "created" ->
               /\ jobs' = jobs (-) SetToBag({job})
               /\ submits' = submits (+) SetToBag({pair})
               /\ posts' = posts (+) SetToBag({pair})
               /\ lastOp' = PostOp(job, "returned", TRUE, files, watermark)

MakePost(job, outcome) ==
    /\ BagIn(job, jobs)
    /\ MakePostForWebhookEvent(job, outcome)
    /\ UNCHANGED <<cache, reqs, events, matcher_jobs, subscriptions, enabled,
                   enqueued>>

(***************************************************************************)
(* The administrator: Channel.enabled is switched by hand, and a docket    *)
(* starts being followed.                                                  *)
(***************************************************************************)
SetEnabled(c, value) ==
    /\ enabled[c] # value
    /\ enabled' = [enabled EXCEPT ![c] = value]
    /\ lastOp' = NoOp
    /\ UNCHANGED <<cache, reqs, events, matcher_jobs, subscriptions, jobs,
                   enqueued, posts, submits>>

Follow(docket) ==
    /\ docket \notin subscriptions
    /\ subscriptions' = subscriptions \cup {docket}
    /\ lastOp' = NoOp
    /\ UNCHANGED <<cache, reqs, events, matcher_jobs, enabled, jobs,
                   enqueued, posts, submits>>

Init ==
    /\ cache = [k \in Keys |-> 0]
    /\ reqs = <<>>
    /\ events = <<>>
    /\ matcher_jobs = {}
    /\ subscriptions = {}
    /\ enabled = [c \in Channels |-> c = 1]
    /\ jobs = EmptyBag
    /\ enqueued = EmptyBag
    /\ posts = EmptyBag
    /\ submits = EmptyBag
    /\ lastOp = NoOp

NextIntake ==
    \/ \E q \in IntakeRequests : Receive(q[1], q[2], q[3])
    \/ \E r \in 1..Len(reqs) : CreateFiling(r)
    \/ \E r \in 1..Len(reqs) : Reserve(r)
    \/ \E r \in 1..Len(reqs), row_created \in BOOLEAN : Fail(r, row_created)
    \/ Tick

SpecIntake == Init /\ [][NextIntake]_vars

Next ==
    \/ \E q \in PipelineRequests : Webhook(q[1], q[2], q[3])
    \/ \E pk \in 1..Len(events) : Matcher(pk)
    \/ \E pk \in 1..Len(events), archived \in BOOLEAN, sponsorship \in BOOLEAN :
          Gate(pk, archived, sponsorship)
    \/ \E pk \in 1..Len(events), sponsorship \in BOOLEAN : Resume(pk, sponsorship)
    \/ \E job \in BagToSet(jobs),
          outcome \in {"raised_before", "raised_after", "created"} :
          MakePost(job, outcome)
    \/ \E c \in Channels, value \in BOOLEAN : SetEnabled(c, value)
    \/ \E docket \in Dockets : Follow(docket)

Spec == Init /\ [][Next]_vars

(***************************************************************************)
(* Definitions shared by the properties.                                   *)
(***************************************************************************)
\* the request carries a key and the supported event type
Valid(r) == r.key # "" /\ r.event_type = DocketAlertEventType

RECURSIVE NumDocs(_)
\* the number of recap documents of the results
NumDocs(results) ==
    IF results = <<>> THEN 0
    ELSE Len(Head(results).recap_documents) + NumDocs(Tail(results))

\* the rows created by the requests received so far
CreatedBy(j) == {reqs[j].created[a] : a \in 1..Len(reqs[j].created)}

\* the rows of request r have their scheduled job, but for the row whose
\* queue.enqueue_in raised
HasJobs(r) ==
    \A a \in 1..Len(r.created) :
        (a < Len(r.created) \/ r.raised = "") => r.created[a] \in matcher_jobs

\* the recap_sequence_number of the result of request r that row pk was made of
\* (the results of a payload have different entry numbers)
SeqOf(r, pk) ==
    LET i == CHOOSE i \in 1..Len(r.results) :
                 r.results[i].entry_number = events[pk].document_number
    IN  r.results[i].recap_sequence_number

\* l records a run of task op on row pk
IsTask(l, op, pk) == l.op = op /\ l.fwe = pk

GateRan(l, pk) == IsTask(l, "check_webhook_before_posting", pk)
ResumeRan(l, pk) == IsTask(l, "process_fetch_webhook_event", pk)
MatcherRan(l, pk) == IsTask(l, "process_filing_webhook_event", pk)
PostRan(l) == l.op = "make_post_for_webhook_event"

\* the number of jobs of the bag for row pk and channel c
CountJobs(bag, pk, c) ==
    LET sel == {x \in BagToSet(bag) : x.fwe = pk /\ x.channel = c}
    IN  BagCardinality([x \in sel |-> bag[x]])

(***************************************************************************)
(* C1.  A valid request that arrives after a request with the same key was *)
(* answered 201, within the lifetime of the key, is answered 200 with an   *)
(* empty body and creates no row and no job; a valid request that replays  *)
(* nothing is answered 201 with the payload echoed, and has created one    *)
(* row, with its scheduled job, per recap document.  Every row and every   *)
(* scheduled job was created by exactly one request (a row has no job only *)
(* when scheduling it raised and ended its request).                       *)
(***************************************************************************)
C1_ReplayIsNoOp ==
    /\ \A j \in 1..Len(reqs) :
         LET r == reqs[j]
         IN  Valid(r) =>
               /\ r.replays # {} =>
                    /\ r.pc = "done"
                    /\ r.response = HTTP_OK
                    /\ r.raised = ""
                    /\ r.body = <<>>
                    /\ r.created = <<>>
               /\ (r.replays = {} /\ r.pc = "done" /\ r.raised = "") =>
                    /\ r.response = HTTP_CREATED
                    /\ r.raised = ""
                    /\ r.body = r.results
                    /\ Len(r.created) = NumDocs(r.results)
                    /\ Cardinality(CreatedBy(j)) = NumDocs(r.results)
    /\ \A pk \in 1..Len(events) :
         Cardinality({j \in 1..Len(reqs) : pk \in CreatedBy(j)}) = 1
    /\ \A j \in 1..Len(reqs) : HasJobs(reqs[j])
    /\ matcher_jobs \subseteq 1..Len(events)

\* a replay was answered 200 after the first delivery had created its rows
C1_Witness ==
    \E j \in 1..Len(reqs) : \E i \in reqs[j].replays :
        /\ Valid(reqs[j])
        /\ reqs[j].response = HTTP_OK
        /\ reqs[j].results = reqs[i].results
        /\ Len(reqs[i].created) = 2
        /\ Len(events) = 2

(***************************************************************************)
(* C8.  The rows a request creates are created in non-decreasing           *)
(* recap_sequence_number order, each with its scheduled job, and a request *)
(* answered 201 has created one row per recap document of each result.     *)
(***************************************************************************)
C8_CreatedInSequenceOrder ==
    \A j \in 1..Len(reqs) :
        LET r == reqs[j]
            n == Len(r.created)
        IN  /\ \A a, b \in 1..n :
                 a < b => /\ r.created[a] < r.created[b]
                          /\ SeqOf(r, r.created[a]) <= SeqOf(r, r.created[b])
            /\ HasJobs(r)
            /\ r.response = HTTP_CREATED =>
                 \A i \in 1..Len(r.results) :
                     Cardinality({a \in 1..n :
                         /\ events[r.created[a]].document_number
                              = r.results[i].entry_number
                         /\ events[r.created[a]].docket_id = r.results[i].docket})
                       = Len(r.results[i].recap_documents)

\* a payload whose results arrived out of order was processed
C8_Witness ==
    \E j \in 1..Len(reqs) :
        /\ reqs[j].response = HTTP_CREATED
        /\ Len(reqs[j].results) = 2
        /\ reqs[j].results[1].recap_sequence_number
             > reqs[j].results[2].recap_sequence_number
        /\ Len(reqs[j].created) = 2

(***************************************************************************)
(* C9.  A request without key raises IdempotencyKeyMissing and a request   *)
(* with a key and an event type other than 1 raises WebhookNotSupported;   *)
(* the step in which such a request is handled leaves the cache, the rows  *)
(* and the scheduled jobs as they were, and the request does nothing       *)
(* afterwards.                                                             *)
(***************************************************************************)
C9_RejectedNoSideEffect ==
    [][\A j \in 1..Len(reqs') :
          LET r == reqs'[j]
          IN  ~Valid(r) =>
                /\ r.pc = "done"
                /\ r.response = 0
                /\ r.raised = IF r.key = "" THEN "IdempotencyKeyMissing"
                                            ELSE "WebhookNotSupported"
                /\ r.todo = <<>>
                /\ r.created = <<>>
                /\ r.ttl = 0
                /\ j > Len(reqs) => UNCHANGED <<cache, events, matcher_jobs>>]_vars

\* both rejections happened
C9_Witness ==
    /\ \E j \in 1..Len(reqs) : reqs[j].raised = "IdempotencyKeyMissing"
    /\ \E j \in 1..Len(reqs) : reqs[j].raised = "WebhookNotSupported"

(***************************************************************************)
(* C2.  There is at most one Post row per (FilingWebhookEvent, Channel).   *)
(***************************************************************************)
C2_AtMostOnePostPerPair ==
    \A pair \in BagToSet(posts) : CopiesIn(pair, posts) <= 1

(***************************************************************************)
(* C3.  A run of a post job does not publish the status when an earlier    *)
(* run of the same job has published it already.                           *)
(***************************************************************************)
C3_NoSecondSubmit == PostRan(lastOp) => ~lastOp.resubmitted

(***************************************************************************)
(* C4.  process_filing_webhook_event run on a row whose docket has no      *)
(* Subscription sets the status to Failed and links no Subscription; a     *)
(* Failed row stays Failed, and no post job is ever enqueued for it.       *)
(***************************************************************************)
C4_UnmatchedIsFailedForGood ==
    [][\A pk \in 1..Len(events) :
          /\ ( /\ MatcherRan(lastOp', pk)
               /\ events[pk].docket_id # 0
               /\ events[pk].docket_id \notin subscriptions )
             => /\ events'[pk].status = FAILED
                /\ events'[pk].subscription = NoSubscription
          /\ events[pk].status = FAILED
             => /\ events'[pk].status = FAILED
                /\ CopiesIn(pk, enqueued') = 0]_vars

\* the docket of a Failed row is followed by now, and the resume task was
\* run on the row
C4_Witness ==
    \E pk \in 1..Len(events) :
        /\ events[pk].status = FAILED
        /\ events[pk].docket_id \in subscriptions
        /\ ResumeRan(lastOp, pk)

(***************************************************************************)
(* C5.  check_webhook_before_posting run on a Successful, linked row whose *)
(* description matches DO_NOT_POST sets the status to Ignored, looks up    *)
(* and purchases no document and enqueues no post job; an Ignored row      *)
(* stays Ignored and no post job is enqueued for it.                       *)
(***************************************************************************)
C5_JunkIsIgnoredForGood ==
    [][\A pk \in 1..Len(events) :
          /\ ( /\ GateRan(lastOp', pk)
               /\ events[pk].status = SUCCESSFUL
               /\ events[pk].subscription # NoSubscription
               /\ DoNotPost(Description(events[pk])) )
             => /\ events'[pk].status = IGNORED
                /\ ~lastOp'.lookup
                /\ ~lastOp'.purchase
                /\ enqueued' = enqueued
          /\ events[pk].status = IGNORED
             => /\ events'[pk].status = IGNORED
                /\ enqueued' = enqueued]_vars

(***************************************************************************)
(* C6.  check_webhook_before_posting run on a Successful, linked row that  *)
(* requires a purchase (description matching neither filter, document not  *)
(* archived, a sponsorship active, a pacer_doc_id) sets the status to      *)
(* WaitingForDocument, purchases and enqueues no post job; while the row   *)
(* is WaitingForDocument only process_fetch_webhook_event run on it        *)
(* enqueues a post job for it.                                             *)
(***************************************************************************)
C6_PurchaseWaitsForResume ==
    [][\A pk \in 1..Len(events) :
          /\ ( /\ GateRan(lastOp', pk)
               /\ events[pk].status = SUCCESSFUL
               /\ events[pk].subscription # NoSubscription
               /\ ~DoNotPost(Description(events[pk]))
               /\ ~DoNotPay(Description(events[pk]))
               /\ events[pk].pacer_doc_id # ""
               /\ ~lastOp'.archived
               /\ lastOp'.sponsorship )
             => /\ events'[pk].status = WAITING_FOR_DOCUMENT
                /\ lastOp'.purchase
                /\ jobs' = jobs
                /\ enqueued' = enqueued
          /\ ( /\ events[pk].status = WAITING_FOR_DOCUMENT
               /\ CopiesIn(pk, enqueued') # CopiesIn(pk, enqueued) )
             => ResumeRan(lastOp', pk)]_vars

\* the gate has just purchased the document of a row, which waits
C6_Witness ==
    \E pk \in 1..Len(events) :
        /\ events[pk].status = WAITING_FOR_DOCUMENT
        /\ GateRan(lastOp, pk)
        /\ lastOp.purchase

(***************************************************************************)
(* C7.  A run of check_webhook_before_posting or                           *)
(* process_fetch_webhook_event that reaches its dispatch loop adds one     *)
(* post job for each channel enabled at that moment and none for a         *)
(* disabled channel; no other step adds a post job.                        *)
(***************************************************************************)
Dispatches(l, pk) ==
    \/ ResumeRan(l, pk) /\ l.outcome = "returned"
    \/ GateRan(l, pk) /\ l.outcome = "returned" /\ l.lookup /\ ~l.purchase

C7_OneJobPerEnabledChannel ==
    [][\A pk \in 1..Len(events'), c \in Channels :
          LET added == CountJobs(jobs', pk, c) - CountJobs(jobs, pk, c)
          IN  IF Dispatches(lastOp', pk)
              THEN added = IF enabled[c] THEN 1 ELSE 0
              ELSE added <= 0]_vars

\* a dispatch has just enqueued one job while a channel was disabled
C7_Witness ==
    \E pk \in 1..Len(events) :
        /\ Dispatches(lastOp, pk)
        /\ lastOp.enqueued = 1
        /\ \E c \in Channels : ~enabled[c]
        /\ \E c \in Channels :
             enabled[c] /\ \E x \in BagToSet(jobs) : x.channel = c /\ x.attempts = 0

(***************************************************************************)
(* C10.  The status of a row moves along New -> Successful/Failed,         *)
(* Successful -> Ignored/WaitingForDocument, WaitingForDocument ->         *)
(* Successful only, and on a row that is Failed, Ignored, or Successful    *)
(* with post jobs enqueued, no task changes the status, purchases a        *)
(* document or enqueues a post job.                                        *)
(***************************************************************************)
AllowedTransition(a, b) ==
    \/ a = b
    \/ a = SCHEDULED /\ b \in {SUCCESSFUL, FAILED}
    \/ a = SUCCESSFUL /\ b \in {IGNORED, WAITING_FOR_DOCUMENT}
    \/ a = WAITING_FOR_DOCUMENT /\ b = SUCCESSFUL

Terminal(pk) ==
    \/ events[pk].status \in {FAILED, IGNORED}
    \/ events[pk].status = SUCCESSFUL /\ CopiesIn(pk, enqueued) > 0

C10_TerminalNeverReprocessed ==
    [][\A pk \in 1..Len(events) :
          /\ AllowedTransition(events[pk].status, events'[pk].status)
          /\ Terminal(pk)
             => /\ events'[pk].status = events[pk].status
                /\ enqueued' = enqueued
                /\ ~(GateRan(lastOp', pk) /\ lastOp'.purchase)]_vars

(***************************************************************************)
(* C11.  A run of make_post_for_webhook_event that raises (while composing *)
(* or submitting, or afterwards) leaves the Post rows as they were, and no *)
(* run of the task, the last retry included, changes a row of              *)
(* FilingWebhookEvent: the status of the event is never set by a post job. *)
(***************************************************************************)
C11_FailedPostLeavesNoTrace ==
    [][PostRan(lastOp') =>
          /\ events' = events
          /\ lastOp'.outcome = "raised" => posts' = posts]_vars

\* the last retry of a job has just raised: the job is gone, its event is
\* Successful and its channel has no Post
C11_Witness ==
    /\ PostRan(lastOp)
    /\ lastOp.outcome = "raised"
    /\ lastOp.attempt = 1 + RQ_MAX_NUMBER_OF_RETRIES
    /\ jobs = EmptyBag
    /\ events[lastOp.fwe].status = SUCCESSFUL
    /\ ~BagIn(<<lastOp.fwe, lastOp.channel>>, posts)

(***************************************************************************)
(* C12.  A run of a post job of one channel, whatever its outcome, leaves  *)
(* the Post rows and the queued post jobs of every other channel as they   *)
(* were; a run whose submit and save succeed adds the Post of its own      *)
(* channel, whatever happened to the jobs of the other channels; and no    *)
(* step removes a Post row.                                                *)
(***************************************************************************)
C12_ChannelsAreIndependent ==
    [][/\ \A pair \in BagToSet(posts) : CopiesIn(pair, posts') >= posts[pair]
       /\ PostRan(lastOp') =>
            LET pk == lastOp'.fwe
                own == <<pk, lastOp'.channel>>
            IN  /\ \A c \in Channels \ {lastOp'.channel} :
                     /\ CopiesIn(<<pk, c>>, posts') = CopiesIn(<<pk, c>>, posts)
                     /\ \A x \in BagToSet(jobs) \cup BagToSet(jobs') :
                          x.channel = c => CopiesIn(x, jobs') = CopiesIn(x, jobs)
                /\ lastOp'.outcome = "returned" =>
                     CopiesIn(own, posts') = CopiesIn(own, posts) + 1]_vars

\* the job of one channel published its status, raised and ran out of
\* retries; afterwards the job of another channel has created its Post
C12_Witness ==
    /\ PostRan(lastOp)
    /\ lastOp.outcome = "returned"
    /\ jobs = EmptyBag
    /\ BagIn(<<lastOp.fwe, lastOp.channel>>, posts)
    /\ \E c \in Channels \ {lastOp.channel} :
         /\ BagIn(<<lastOp.fwe, c>>, submits)
         /\ ~BagIn(<<lastOp.fwe, c>>, posts)

(***************************************************************************)
(* C13.  A post job is run at most 1 + RQ_MAX_NUMBER_OF_RETRIES times: a   *)
(* queued job has raised at most RQ_MAX_NUMBER_OF_RETRIES times, a run     *)
(* puts the job back in the queue only when it raised and retries were     *)
(* left, with one retry less, and otherwise the job leaves the queue, with *)
(* its Post created or having raised for the last time.                    *)
(***************************************************************************)
RECURSIVE RunsLeftOf(_, _)
RunsLeftOf(bag, todo) ==
    IF todo = {} THEN 0
    ELSE LET x == CHOOSE x \in todo : TRUE
         IN  bag[x] * (1 + RQ_MAX_NUMBER_OF_RETRIES - x.attempts)
             + RunsLeftOf(bag, todo \ {x})

\* the number of runs the jobs of the queue can still have
RunsLeft(bag) == RunsLeftOf(bag, BagToSet(bag))

C13_BoundedAttempts ==
    [][/\ \A x \in BagToSet(jobs') : x.attempts <= RQ_MAX_NUMBER_OF_RETRIES
       /\ PostRan(lastOp') =>
            LET own == <<lastOp'.fwe, lastOp'.channel>>
                before == BagCardinality(jobs)
                after == BagCardinality(jobs')
            IN  /\ lastOp'.attempt <= 1 + RQ_MAX_NUMBER_OF_RETRIES
                /\ RunsLeft(jobs') < RunsLeft(jobs)
                /\ after = before
                   => /\ lastOp'.outcome = "raised"
                      /\ lastOp'.attempt <= RQ_MAX_NUMBER_OF_RETRIES
                /\ after # before
                   => /\ after = before - 1
                      /\ \/ /\ lastOp'.outcome = "returned"
                            /\ CopiesIn(own, posts') = CopiesIn(own, posts) + 1
                         \/ /\ lastOp'.outcome = "raised"
                            /\ lastOp'.attempt = 1 + RQ_MAX_NUMBER_OF_RETRIES
                            /\ posts' = posts]_vars

\* a job raised, was enqueued again, and its retry has created the Post
C13_Witness ==
    /\ PostRan(lastOp)
    /\ lastOp.outcome = "returned"
    /\ lastOp.attempt = 1 + RQ_MAX_NUMBER_OF_RETRIES
    /\ BagIn(<<lastOp.fwe, lastOp.channel>>, posts)
    /\ CountJobs(jobs, lastOp.fwe, lastOp.channel) = 0

(***************************************************************************)
(* C14.  check_webhook_before_posting run on a Successful, linked row      *)
(* whose description does not match DO_NOT_POST and whose document is not  *)
(* archived, when no sponsorship is active, or the row has no pacer_doc_id,*)
(* or the description matches DO_NOT_PAY: purchases nothing, leaves the    *)
(* status Successful and enqueues one post job per enabled channel, each   *)
(* without document and without sponsor text.  A run of a post job makes   *)
(* thumbnails only of a document its job carries, and watermarks only      *)
(* thumbnails.                                                             *)
(***************************************************************************)
C14_NoPurchaseDispatchesTextOnly ==
    [][/\ \A pk \in 1..Len(events) :
            ( /\ GateRan(lastOp', pk)
              /\ events[pk].status = SUCCESSFUL
              /\ events[pk].subscription # NoSubscription
              /\ ~DoNotPost(Description(events[pk]))
              /\ lastOp'.lookup
              /\ ~lastOp'.archived
              /\ \/ ~lastOp'.sponsorship
                 \/ events[pk].pacer_doc_id = ""
                 \/ DoNotPay(Description(events[pk])) )
            => /\ ~lastOp'.purchase
               /\ events'[pk].status = SUCCESSFUL
               /\ lastOp'.enqueued = Cardinality(GetEnabledChannels)
               /\ BagCardinality(jobs') = BagCardinality(jobs) + lastOp'.enqueued
               /\ \A c \in GetEnabledChannels :
                    CountJobs(jobs', pk, c) = CountJobs(jobs, pk, c) + 1
               /\ \A x \in BagToSet(jobs') :
                    CopiesIn(x, jobs') > CopiesIn(x, jobs)
                    => ~x.document /\ ~x.sponsor_text /\ x.fwe = pk
       /\ PostRan(lastOp') =>
            /\ lastOp'.files =>
                 \E x \in BagToSet(jobs) :
                     /\ x.fwe = lastOp'.fwe
                     /\ x.channel = lastOp'.channel
                     /\ x.document
            /\ lastOp'.watermark => lastOp'.files]_vars

\* the status of a row whose description matches DO_NOT_PAY was posted
\* without thumbnails, by a job of the gate's dispatch
C14_Witness ==
    /\ PostRan(lastOp)
    /\ lastOp.outcome = "returned"
    /\ ~lastOp.files
    /\ ~lastOp.watermark
    /\ DoNotPay(Description(events[lastOp.fwe]))
    /\ events[lastOp.fwe].status = SUCCESSFUL
    /\ BagIn(<<lastOp.fwe, lastOp.channel>>, posts)

(***************************************************************************)
(* C15.  A valid request that arrives while an earlier request with the    *)
(* same key is between cache.get and cache.set, no request having saved    *)
(* the key yet, is not answered 200: it creates its own rows and scheduled *)
(* jobs, one per recap document, apart from those of the earlier request,  *)
(* and when both have handled the same payload every row of the one has a  *)
(* duplicate (same docket, document and description) made by the other.    *)
(***************************************************************************)
C15_ConcurrentDuplicates ==
    \A j \in 1..Len(reqs) :
        LET r == reqs[j]
        IN  (Valid(r) /\ r.overlaps # {} /\ r.replays = {}) =>
              /\ r.response # HTTP_OK
              /\ (r.pc = "done" /\ r.raised = "") =>
                    /\ r.response = HTTP_CREATED
                    /\ Len(r.created) = NumDocs(r.results)
                    /\ HasJobs(r)
              /\ \A i \in r.overlaps :
                    /\ CreatedBy(i) \cap CreatedBy(j) = {}
                    /\ ( /\ reqs[i].results = r.results
                         /\ reqs[i].response = HTTP_CREATED
                         /\ r.response = HTTP_CREATED )
                       => /\ Len(reqs[i].created) = Len(r.created)
                          /\ \A a \in 1..Len(r.created) :
                               /\ reqs[i].created[a] # r.created[a]
                               /\ events[reqs[i].created[a]] = events[r.created[a]]

\* two deliveries with the same key and payload were both answered 201, and
\* two rows with scheduled jobs exist for the same docket and document
C15_Witness ==
    \E j \in 1..Len(reqs) : \E i \in reqs[j].overlaps :
        /\ reqs[i].results = reqs[j].results
        /\ reqs[i].response = HTTP_CREATED
        /\ reqs[j].response = HTTP_CREATED
        /\ \E pk, dup \in matcher_jobs :
             /\ pk \in CreatedBy(i)
             /\ dup \in CreatedBy(j)
             /\ events[pk].docket_id = events[dup].docket_id
             /\ events[pk].pacer_doc_id = events[dup].pacer_doc_id
             /\ events[pk].document_number = events[dup].document_number

(***************************************************************************)
(* C16.  While a key is in the cache, a request with that key has been     *)
(* answered 201, and every request that saved a key had created all its    *)
(* rows, each with its scheduled job, before; a request that raised        *)
(* part-way has saved no key.                                              *)
(***************************************************************************)
C16_ReservedAfterAllCreated ==
    /\ \A k \in Keys :
         cache[k] > 0 =>
           \E j \in 1..Len(reqs) :
               /\ reqs[j].key = k
               /\ reqs[j].response = HTTP_CREATED
               /\ reqs[j].ttl = cache[k]
    /\ \A j \in 1..Len(reqs) :
         LET r == reqs[j]
         IN  /\ (r.ttl > 0 \/ r.response = HTTP_CREATED) =>
                   /\ r.todo = <<>>
                   /\ r.raised = ""
                   /\ Len(r.created) = NumDocs(r.results)
                   /\ \A a \in 1..Len(r.created) :
                        /\ r.created[a] \in 1..Len(events)
                        /\ r.created[a] \in matcher_jobs
             /\ r.raised # "" =>
                   /\ r.ttl = 0
                   /\ r.response = 0
                   /\ (\A i \in 1..Len(reqs) :
                          reqs[i].key = r.key => reqs[i].response # HTTP_CREATED)
                      => r.key = "" \/ cache[r.key] = 0

\* a request raised after it had created a row, and its key is not in the
\* cache, while the key of a request answered 201 is
C16_Witness ==
    /\ \E j \in 1..Len(reqs) :
         /\ reqs[j].raised = "ServerError"
         /\ Len(reqs[j].created) >= 1
         /\ reqs[j].todo # <<>>
         /\ cache[reqs[j].key] = 0
    /\ \E i \in 1..Len(reqs) :
         /\ reqs[i].response = HTTP_CREATED
         /\ cache[reqs[i].key] > 0

(***************************************************************************)
(* C17.  process_fetch_webhook_event run on a row with a linked            *)
(* Subscription returns with the status Successful and one more post job   *)
(* for each enabled channel, each carrying a document; it has logged a     *)
(* purchase, and the new jobs carry a sponsor text, exactly when           *)
(* get_active_sponsorship returned a sponsorship.  No other task logs a    *)
(* purchase.                                                               *)
(***************************************************************************)
C17_ResumeDispatchesWithDocument ==
    [][\A pk \in 1..Len(events) :
          /\ (ResumeRan(lastOp', pk) /\ events[pk].subscription # NoSubscription)
             => /\ lastOp'.outcome = "returned"
                /\ events'[pk].status = SUCCESSFUL
                /\ lastOp'.enqueued = Cardinality(GetEnabledChannels)
                /\ \A c \in Channels :
                     CountJobs(jobs', pk, c)
                       = CountJobs(jobs, pk, c) + IF enabled[c] THEN 1 ELSE 0
                /\ \A x \in BagToSet(jobs') :
                     CopiesIn(x, jobs') > CopiesIn(x, jobs)
                     => /\ x.document
                        /\ x.sponsor_text = lastOp'.sponsorship
                        /\ x.subscription = events[pk].subscription
                /\ lastOp'.logged = lastOp'.sponsorship
          /\ (GateRan(lastOp', pk) \/ MatcherRan(lastOp', pk))
             => ~lastOp'.logged]_vars

\* the resume task has just run without active sponsorship: nothing was
\* logged, and the job it enqueued carries the document and no sponsor text
C17_Witness ==
    \E pk \in 1..Len(events) :
        /\ ResumeRan(lastOp, pk)
        /\ lastOp.outcome = "returned"
        /\ ~lastOp.sponsorship
        /\ ~lastOp.logged
        /\ lastOp.enqueued >= 1
        /\ events[pk].status = SUCCESSFUL
        /\ \E x \in BagToSet(jobs) :
             x.fwe = pk /\ x.document /\ ~x.sponsor_text /\ x.attempts = 0

(***************************************************************************)
(* C18.  check_webhook_before_posting or process_fetch_webhook_event run   *)
(* on a row with no linked Subscription raises, and leaves the status as   *)
(* it was, purchases nothing and enqueues no post job.                     *)
(***************************************************************************)
Unlinked(pk) == events[pk].subscription = NoSubscription

NoEffect(l) ==
    /\ events' = events
    /\ jobs' = jobs
    /\ enqueued' = enqueued
    /\ ~l.purchase
    /\ ~l.logged
    /\ l.enqueued = 0

C18_UnlinkedAlwaysRaises ==
    [][\A pk \in 1..Len(events) :
          (Unlinked(pk) /\ (GateRan(lastOp', pk) \/ ResumeRan(lastOp', pk)))
          => /\ lastOp'.outcome = "raised"
             /\ NoEffect(lastOp')]_vars

(***************************************************************************)
(* C18, as amended.  process_fetch_webhook_event run on a row with no      *)
(* linked Subscription raises; check_webhook_before_posting run on such a  *)
(* row raises when the status is Successful and returns otherwise (the     *)
(* status is tested first); both leave the status as it was, purchase      *)
(* nothing and enqueue no post job.                                        *)
(***************************************************************************)
C18_UnlinkedRaisesOrIsSkipped ==
    [][\A pk \in 1..Len(events) :
          Unlinked(pk) =>
            /\ ResumeRan(lastOp', pk)
               => lastOp'.outcome = "raised" /\ NoEffect(lastOp')
            /\ GateRan(lastOp', pk)
               => /\ lastOp'.outcome = "raised"
                       <=> events[pk].status = SUCCESSFUL
                  /\ NoEffect(lastOp')]_vars

\* the resume task has just raised on a row that the matcher marked Failed
\* and linked to no Subscription
C18_Witness ==
    \E pk \in 1..Len(events) :
        /\ events[pk].subscription = NoSubscription
        /\ events[pk].status = FAILED
        /\ events[pk].docket_id \notin subscriptions
        /\ ResumeRan(lastOp, pk)
        /\ lastOp.outcome = "raised"

(***************************************************************************)
(* C19.  A post job is enqueued for a row only by                          *)
(* check_webhook_before_posting or process_fetch_webhook_event run on that *)
(* row, and the task that enqueues it leaves the row Successful and linked *)
(* to a Subscription, whose pk the job carries; the row was not New or     *)
(* Failed before, and it was Successful before when the gate enqueues.     *)
(***************************************************************************)
C19_EnqueuedOnlyForSuccessful ==
    [][\A pk \in 1..Len(events') :
          (CopiesIn(pk, enqueued') > CopiesIn(pk, enqueued)
           \/ \E x \in BagToSet(jobs') :
                 x.fwe = pk /\ CopiesIn(x, jobs') > CopiesIn(x, jobs)
                            /\ ~PostRan(lastOp'))
          => /\ GateRan(lastOp', pk) \/ ResumeRan(lastOp', pk)
             /\ pk \in 1..Len(events)
             /\ events'[pk].status = SUCCESSFUL
             /\ events'[pk].subscription # NoSubscription
             /\ events'[pk].subscription = events[pk].subscription
             /\ events[pk].status \notin {SCHEDULED, FAILED}
             /\ GateRan(lastOp', pk) => events[pk].status = SUCCESSFUL
             /\ \A x \in BagToSet(jobs') :
                  CopiesIn(x, jobs') > CopiesIn(x, jobs)
                  => x.fwe = pk /\ x.subscription = events'[pk].subscription]_vars

\* the gate has just enqueued a post job for a Successful row; the job
\* carries the pk of the Subscription of the row
C19_Witness ==
    \E pk \in 1..Len(events) :
        /\ GateRan(lastOp, pk)
        /\ lastOp.enqueued >= 1
        /\ events[pk].status = SUCCESSFUL
        /\ events[pk].subscription \in subscriptions
        /\ \E x \in BagToSet(jobs) :
             /\ x.fwe = pk
             /\ x.attempts = 0
             /\ x.subscription = events[pk].subscription

(***************************************************************************)
(* C20.  purchase_pdf_by_doc_id is called only by                          *)
(* check_webhook_before_posting, on a Successful row linked to a           *)
(* Subscription, with a pacer_doc_id and a description matching neither    *)
(* DO_NOT_POST nor DO_NOT_PAY, when the document is not archived and a     *)
(* sponsorship is active; that run sets the status to WaitingForDocument   *)
(* and enqueues no post job.  A row becomes WaitingForDocument only in a   *)
(* run that purchases, and check_webhook_before_posting run on a           *)
(* WaitingForDocument row purchases nothing and changes nothing.           *)
(***************************************************************************)
IsTaskOp(l) ==
    l.op \in {"process_filing_webhook_event", "check_webhook_before_posting",
              "process_fetch_webhook_event"}

C20_PurchaseOnlyWhenSponsored ==
    [][\A pk \in 1..Len(events) :
          /\ (IsTaskOp(lastOp') /\ lastOp'.fwe = pk /\ lastOp'.purchase)
             => /\ GateRan(lastOp', pk)
                /\ events[pk].status = SUCCESSFUL
                /\ events[pk].subscription # NoSubscription
                /\ ~DoNotPost(Description(events[pk]))
                /\ ~DoNotPay(Description(events[pk]))
                /\ events[pk].pacer_doc_id # ""
                /\ lastOp'.lookup
                /\ ~lastOp'.archived
                /\ lastOp'.sponsorship
                /\ events'[pk].status = WAITING_FOR_DOCUMENT
                /\ lastOp'.enqueued = 0
                /\ jobs' = jobs
                /\ enqueued' = enqueued
          /\ ( /\ events'[pk].status = WAITING_FOR_DOCUMENT
               /\ events[pk].status # WAITING_FOR_DOCUMENT )
             => GateRan(lastOp', pk) /\ lastOp'.purchase
          /\ (events[pk].status = WAITING_FOR_DOCUMENT /\ GateRan(lastOp', pk))
             => /\ ~lastOp'.purchase
                /\ ~lastOp'.lookup
                /\ lastOp'.outcome = "returned"
                /\ events' = events
                /\ jobs' = jobs
                /\ enqueued' = enqueued]_vars

\* the gate was run again on a row that waits for its document, and
\* returned at once
C20_Witness ==
    \E pk \in 1..Len(events) :
        /\ events[pk].status = WAITING_FOR_DOCUMENT
        /\ GateRan(lastOp, pk)
        /\ ~lastOp.purchase
        /\ ~lastOp.lookup

====
